---- MODULE Spec2Model ----
(***************************************************************************)
(* Bread Buying Problem (src/bbp.rs): parse_input, make_environment,       *)
(* calculate_bread_availability and solve, run once in that order by main. *)
(*                                                                         *)
(* Conventions.  A Vec is a sequence; its Rust index k is position k+1,    *)
(* except the availability rows and minimum_providers, which are functions *)
(* on 0..len-1 so that day indices read as in the source.  Option<T> is a  *)
(* sequence of length at most one: None is <<>>, Some(v) is <<v>>.         *)
(* A Qty (u32) is held as its 32-bit pattern: `qty_accum as Qty` keeps the *)
(* bits, so an entry n < 0 stands for the u32 value 2^32 + n.              *)
(***************************************************************************)
EXTENDS Integers, Sequences, FiniteSets, TLC

BREAD_EXPIRATION == 30
INITIAL_BREAD == 10

\* Bounds of the explored inputs.
MaxTotalDays == 45
MaxEvents == 2
MaxPrice == 2

None == <<>>
Some(v) == <<v>>
IsSome(o) == o /= <<>>
Unwrap(o) == o[1]

SellEvent(d, p) == [day |-> d, price |-> p]

\* ------------------------------------------------------------------------
\* Inputs: the numeric fields of the command line (args[1], and the
\* "(day,price)" entries of args[2] in the order given).
\* ------------------------------------------------------------------------
EventDays == {0, 1, INITIAL_BREAD + 2, BREAD_EXPIRATION + 5}
EventPrices == 0..MaxPrice
EventLists ==
    UNION {[1..n -> [day : EventDays, price : EventPrices]] : n \in 1..MaxEvents}

ScenarioA ==
    [days |-> 60,
     events |-> <<SellEvent(10, 200), SellEvent(15, 100),
                  SellEvent(35, 500), SellEvent(50, 30)>>]
ScenarioB == [days |-> 40, events |-> <<SellEvent(5, 100)>>]
ScenarioC == [days |-> 3, events |-> <<SellEvent(1, 50), SellEvent(2, 40)>>]

Inputs ==
    {[days |-> d, events |-> e] : d \in 0..MaxTotalDays, e \in EventLists}
        \cup {ScenarioA, ScenarioB, ScenarioC}

VARIABLES
    args,               \* the command line, as numbers
    pc,                 \* position of main
    fatal_msg,          \* message of the fatal! that ended the process, or ""
    calendar_length,    \* main: first component of parse_input's result
    unordered_events,   \* main: second component of parse_input's result
    environment,        \* main: Environment {event_list, providers, avail_matrix}
    minimum_providers,  \* solve: Vec<Option<usize>>, one per day
    counter,            \* solve: loop index of the plan compiler
    previous,           \* solve: Option<usize>
    qty_accum,          \* solve: i32
    solution,           \* solve: Purchases
    branch              \* solve: arm of the match taken by the last iteration

vars == <<args, pc, fatal_msg, calendar_length, unordered_events, environment,
          minimum_providers, counter, previous, qty_accum, solution, branch>>

\* ------------------------------------------------------------------------
\* parse_input
\* ------------------------------------------------------------------------
Fatal(msg) == [ok |-> FALSE, msg |-> msg, events |-> <<>>]

\* As ParseLoop, but SellEvent::new accepts day 0.
RECURSIVE ParseLoopAcceptingDayZero(_, _, _, _)
ParseLoopAcceptingDayZero(evs, k, prev_day, events) ==
    IF k > Len(evs) THEN [ok |-> TRUE, msg |-> "", events |-> events]
    ELSE LET sell_event == evs[k] IN
         IF sell_event.price = 0 THEN Fatal("Price can't be 0")
         ELSE IF IsSome(prev_day)
              THEN IF Unwrap(prev_day) > sell_event.day
                   THEN Fatal("List of purchases doesn't have consecutive day number")
                   ELSE ParseLoopAcceptingDayZero(evs, k + 1, Some(sell_event.day),
                                                  Append(events, sell_event))
              ELSE ParseLoopAcceptingDayZero(evs, k + 1, prev_day,
                                             Append(events, sell_event))

\* The loop over the entries of args[2]; SellEvent::new rejects a zero day
\* or price, then the day is compared with prev_day.
RECURSIVE ParseLoop(_, _, _, _)
ParseLoop(evs, k, prev_day, events) ==
    IF k > Len(evs) THEN [ok |-> TRUE, msg |-> "", events |-> events]
    ELSE LET sell_event == evs[k] IN
         IF sell_event.day = 0 THEN Fatal("Day can't be 0")
         ELSE IF sell_event.price = 0 THEN Fatal("Price can't be 0")
         ELSE IF IsSome(prev_day)
              THEN IF Unwrap(prev_day) > sell_event.day
                   THEN Fatal("List of purchases doesn't have consecutive day number")
                   ELSE ParseLoop(evs, k + 1, Some(sell_event.day),
                                  Append(events, sell_event))
              ELSE ParseLoop(evs, k + 1, prev_day, Append(events, sell_event))

ParseInputResult(a) ==
    IF a.days = 0 THEN Fatal("Day number is 0")
    ELSE LET r == ParseLoop(a.events, 1, None, <<>>) IN
         IF r.ok /\ r.events = <<>> THEN Fatal("The calendar is empty") ELSE r

\* ------------------------------------------------------------------------
\* Providers
\* ------------------------------------------------------------------------
\* Index (from 0) of the first provider with this price.
RECURSIVE FindProviderFrom(_, _, _)
FindProviderFrom(providers, price, idx) ==
    IF idx >= Len(providers) THEN None
    ELSE IF providers[idx + 1] = price THEN Some(idx)
    ELSE FindProviderFrom(providers, price, idx + 1)

FindProvider(providers, price) == FindProviderFrom(providers, price, 0)

\* As AddProvider, but a registered price is pushed again.
AddProviderNoCheck(providers, price) ==
    [ok |-> TRUE, providers |-> Append(providers, price)]

\* add_provider: fatal when the price is registered, else push.
AddProvider(providers, price) ==
    IF IsSome(FindProvider(providers, price))
    THEN [ok |-> FALSE, providers |-> providers]
    ELSE [ok |-> TRUE, providers |-> Append(providers, price)]

\* Stable insertion of index k into a list of indices ordered by price.
RECURSIVE InsertByPrice(_, _, _)
InsertByPrice(providers, k, s) ==
    IF s = <<>> THEN <<k>>
    ELSE IF providers[Head(s) + 1] > providers[k + 1] THEN <<k>> \o s
    ELSE <<Head(s)>> \o InsertByPrice(providers, k, Tail(s))

RECURSIVE SortByPriceFrom(_, _, _)
SortByPriceFrom(providers, k, s) ==
    IF k >= Len(providers) THEN s
    ELSE SortByPriceFrom(providers, k + 1, InsertByPrice(providers, k, s))

\* As SortByPrice, but the indices stay in registration order.
SortByRegistration(providers) == [k \in 1..Len(providers) |-> k - 1]

\* sort_by_price: the provider indices, by ascending price (stable).
SortByPrice(providers) == SortByPriceFrom(providers, 0, <<>>)

\* ------------------------------------------------------------------------
\* make_environment
\* ------------------------------------------------------------------------
\* The comparator given to parsed_events.sort_by: day, then price.
EventCmp(e1, e2) ==
    IF e1.day > e2.day THEN "Greater"
    ELSE IF e1.day < e2.day THEN "Less"
    ELSE IF e1.price > e2.price THEN "Greater"
    ELSE IF e1.price < e2.price THEN "Less"
    ELSE "Equal"

\* As InsertEvent, but the elements walked past are lost.
RECURSIVE InsertEventDropping(_, _)
InsertEventDropping(e, s) ==
    IF s = <<>> THEN <<e>>
    ELSE IF EventCmp(Head(s), e) = "Greater" THEN <<e>> \o s
    ELSE InsertEventDropping(e, Tail(s))

\* Stable insertion of e into a list ordered by EventCmp (sort_by is stable).
RECURSIVE InsertEvent(_, _)
InsertEvent(e, s) ==
    IF s = <<>> THEN <<e>>
    ELSE IF EventCmp(Head(s), e) = "Greater" THEN <<e>> \o s
    ELSE <<Head(s)>> \o InsertEvent(e, Tail(s))

RECURSIVE SortEventsFrom(_, _, _)
SortEventsFrom(evs, k, s) ==
    IF k > Len(evs) THEN s
    ELSE SortEventsFrom(evs, k + 1, InsertEvent(evs[k], s))

SortEvents(evs) == SortEventsFrom(evs, 1, <<>>)

\* for e in &parsed_events { environment.providers.add_provider(e.price); }
RECURSIVE RegisterProviders(_, _, _)
RegisterProviders(evs, k, providers) ==
    IF k > Len(evs) THEN [ok |-> TRUE, providers |-> providers]
    ELSE LET r == AddProvider(providers, evs[k].price) IN
         IF r.ok THEN RegisterProviders(evs, k + 1, r.providers) ELSE r

EventList(day) == [day |-> day, events |-> <<>>]

\* The while loop that groups the sorted events per day; cur_idx counts
\* from 0 as in the source.
RECURSIVE GroupLoop(_, _, _, _)
GroupLoop(evs, cur_idx, daily, daily_events) ==
    IF cur_idx >= Len(evs) THEN daily_events
    ELSE LET added == [daily EXCEPT !.events = Append(@, evs[cur_idx + 1])]
             nxt == cur_idx + 1
         IN IF nxt < Len(evs)
            THEN IF evs[nxt + 1].day /= added.day
                 THEN GroupLoop(evs, nxt, EventList(evs[nxt + 1].day),
                                Append(daily_events, added))
                 ELSE GroupLoop(evs, nxt, added, daily_events)
            ELSE GroupLoop(evs, nxt, added, Append(daily_events, added))

\* The message of add_provider's fatal!, without the price.
DuplicateMsg == "Provide with price already registered, invalid input"

EmptyEnvironment == [event_list |-> <<>>, providers |-> <<>>, avail_matrix |-> <<>>]

MakeEnvironmentResult(events) ==
    LET parsed_events == SortEvents(events)
        reg == RegisterProviders(parsed_events, 1, <<>>)
    IN IF ~reg.ok
       THEN [ok |-> FALSE, environment |-> EmptyEnvironment]
       ELSE [ok |-> TRUE,
             environment |->
                 [event_list |-> GroupLoop(parsed_events, 0,
                                           EventList(parsed_events[1].day), <<>>),
                  providers |-> reg.providers,
                  avail_matrix |-> <<>>]]

\* ------------------------------------------------------------------------
\* calculate_bread_availability
\* ------------------------------------------------------------------------
GenerateEmptyAvailabilityVec(num_elts) == [i \in 0..(num_elts - 1) |-> FALSE]

\* As Written, but the limit is not clipped to the calendar.
WrittenUnclipped(start_idx, calendar_days) ==
    start_idx..(start_idx + BREAD_EXPIRATION - 1)

\* As Written, but the run starts one index early (day d at index d - 1).
WrittenFromDayBefore(start_idx, calendar_days) ==
    LET limit == IF start_idx + BREAD_EXPIRATION >= calendar_days
                 THEN calendar_days ELSE start_idx + BREAD_EXPIRATION
    IN (start_idx - 1)..(limit - 1)

\* The indices set_availability_at writes: start_idx..limit, limit excluded.
Written(start_idx, calendar_days) ==
    LET limit == IF start_idx + BREAD_EXPIRATION >= calendar_days
                 THEN calendar_days ELSE start_idx + BREAD_EXPIRATION
    IN start_idx..(limit - 1)

\* a[i] = true for each written index; an index outside the row panics.
SetAvailabilityAt(a, start_idx, calendar_days) ==
    LET w == Written(start_idx, calendar_days) IN
    [panic |-> \E i \in w : i \notin DOMAIN a,
     a |-> [i \in DOMAIN a |-> IF i \in w THEN TRUE ELSE a[i]]]

\* The two nested loops over event_list and its events; g and k count from 1.
RECURSIVE AvailabilityLoop(_, _, _, _, _)
AvailabilityLoop(env, calendar_days, g, k, cal) ==
    IF g > Len(env.event_list) THEN [panic |-> FALSE, cal |-> cal]
    ELSE IF k > Len(env.event_list[g].events)
    THEN AvailabilityLoop(env, calendar_days, g + 1, 1, cal)
    ELSE LET single_event == env.event_list[g].events[k]
             found == FindProvider(env.providers, single_event.price)
         IN IF ~IsSome(found) THEN [panic |-> TRUE, cal |-> cal]
            ELSE LET pidx == Unwrap(found)
                     r == SetAvailabilityAt(cal[pidx + 1], single_event.day,
                                            calendar_days)
                 IN IF r.panic THEN [panic |-> TRUE, cal |-> cal]
                    ELSE AvailabilityLoop(env, calendar_days, g, k + 1,
                                          [cal EXCEPT ![pidx + 1] = r.a])

CalculateBreadAvailability(env, calendar_days) ==
    AvailabilityLoop(env, calendar_days, 1, 1,
        [p \in 1..Len(env.providers) |->
            GenerateEmptyAvailabilityVec(calendar_days)])

\* ------------------------------------------------------------------------
\* solve
\* ------------------------------------------------------------------------
\* First provider of prov_list (from position k) that is fresh on day_num.
RECURSIVE CheapestFrom(_, _, _, _)
CheapestFrom(avail_matrix, prov_list, day_num, k) ==
    IF k > Len(prov_list) THEN None
    ELSE IF avail_matrix[prov_list[k] + 1][day_num] THEN Some(prov_list[k])
    ELSE CheapestFrom(avail_matrix, prov_list, day_num, k + 1)

CheapestBreadForDay(avail_matrix, prov_list, day_num) ==
    CheapestFrom(avail_matrix, prov_list, day_num, 1)

\* The first loop of solve: one push per day, day = 0 .. total_days - 1
\* (the loop body runs before its exit test; total_days > 0 is asserted).
MinimumProviders(total_days, env) ==
    LET providers == SortByPrice(env.providers) IN
    [day \in 0..(total_days - 1) |->
        CheapestBreadForDay(env.avail_matrix, providers, day)]

\* `qty_accum as Qty`: the same 32 bits (see the conventions above).
AsQty(q) == q

\* State of the plan compiler before its first iteration.
CompilerStart(mp) ==
    [previous |-> mp[0], qty_accum |-> 0 - INITIAL_BREAD,
     solution |-> <<>>, branch |-> "entry"]

\* As CompileStep, but a switch of provider does not reset the accumulator.
CompileStepNoReset(st, cur) ==
    IF IsSome(st.previous)
    THEN IF IsSome(cur)
         THEN IF Unwrap(cur) = Unwrap(st.previous)
              THEN [st EXCEPT !.qty_accum = @ + 1, !.previous = cur,
                              !.branch = "same"]
              ELSE [previous |-> cur, qty_accum |-> st.qty_accum + 1,
                    solution |-> Append(st.solution, Some(AsQty(st.qty_accum))),
                    branch |-> "switch"]
         ELSE [previous |-> cur, qty_accum |-> st.qty_accum + 1,
               solution |-> st.solution \o <<Some(AsQty(st.qty_accum)), None>>,
               branch |-> "stale"]
    ELSE IF st.qty_accum < 0
         THEN [st EXCEPT !.qty_accum = @ + 1, !.branch = "drain"]
         ELSE IF IsSome(cur)
              THEN [st EXCEPT !.qty_accum = 1, !.previous = cur,
                              !.branch = "start"]
              ELSE [st EXCEPT !.solution = Append(@, None), !.previous = cur,
                              !.branch = "gap"]

\* As CompileStep, but a run that starts after stale days adds to the
\* accumulator instead of setting it to 1.
CompileStepNoRestart(st, cur) ==
    IF IsSome(st.previous)
    THEN IF IsSome(cur)
         THEN IF Unwrap(cur) = Unwrap(st.previous)
              THEN [st EXCEPT !.qty_accum = @ + 1, !.previous = cur,
                              !.branch = "same"]
              ELSE [previous |-> cur, qty_accum |-> 0 + 1,
                    solution |-> Append(st.solution, Some(AsQty(st.qty_accum))),
                    branch |-> "switch"]
         ELSE [previous |-> cur, qty_accum |-> st.qty_accum + 1,
               solution |-> st.solution \o <<Some(AsQty(st.qty_accum)), None>>,
               branch |-> "stale"]
    ELSE IF st.qty_accum < 0
         THEN [st EXCEPT !.qty_accum = @ + 1, !.branch = "drain"]
         ELSE IF IsSome(cur)
              THEN [st EXCEPT !.qty_accum = @ + 1, !.previous = cur,
                              !.branch = "start"]
              ELSE [st EXCEPT !.solution = Append(@, None), !.previous = cur,
                              !.branch = "gap"]

\* As CompileStep, but a stale day met with no open run is not recorded.
CompileStepNoGapEntry(st, cur) ==
    IF IsSome(st.previous)
    THEN IF IsSome(cur)
         THEN IF Unwrap(cur) = Unwrap(st.previous)
              THEN [st EXCEPT !.qty_accum = @ + 1, !.previous = cur,
                              !.branch = "same"]
              ELSE [previous |-> cur, qty_accum |-> 0 + 1,
                    solution |-> Append(st.solution, Some(AsQty(st.qty_accum))),
                    branch |-> "switch"]
         ELSE [previous |-> cur, qty_accum |-> st.qty_accum + 1,
               solution |-> st.solution \o <<Some(AsQty(st.qty_accum)), None>>,
               branch |-> "stale"]
    ELSE IF st.qty_accum < 0
         THEN [st EXCEPT !.qty_accum = @ + 1, !.branch = "drain"]
         ELSE IF IsSome(cur)
              THEN [st EXCEPT !.qty_accum = 1, !.previous = cur,
                              !.branch = "start"]
              ELSE [st EXCEPT !.previous = cur, !.branch = "gap"]

\* One iteration of the while loop of solve, cur = minimum_providers[counter].
\* branch names the arm taken:
\*   "same"   previous = Some(p), cur = Some(p)
\*   "switch" previous = Some(p), cur = Some(q), q /= p
\*   "stale"  previous = Some(p), cur = None
\*   "drain"  previous = None, qty_accum < 0
\*   "start"  previous = None, qty_accum >= 0, cur = Some(_)
\*   "gap"    previous = None, qty_accum >= 0, cur = None
CompileStep(st, cur) ==
    IF IsSome(st.previous)
    THEN IF IsSome(cur)
         THEN IF Unwrap(cur) = Unwrap(st.previous)
              THEN [st EXCEPT !.qty_accum = @ + 1, !.previous = cur,
                              !.branch = "same"]
              ELSE [previous |-> cur, qty_accum |-> 0 + 1,
                    solution |-> Append(st.solution, Some(AsQty(st.qty_accum))),
                    branch |-> "switch"]
         ELSE [previous |-> cur, qty_accum |-> st.qty_accum + 1,
               solution |-> st.solution \o <<Some(AsQty(st.qty_accum)), None>>,
               branch |-> "stale"]
    ELSE IF st.qty_accum < 0
         THEN [st EXCEPT !.qty_accum = @ + 1, !.branch = "drain"]
         ELSE IF IsSome(cur)
              THEN [st EXCEPT !.qty_accum = 1, !.previous = cur,
                              !.branch = "start"]
              ELSE [st EXCEPT !.solution = Append(@, None), !.previous = cur,
                              !.branch = "gap"]

\* The match after the loop: the open run, if any, is pushed.
FlushSolution(st) ==
    IF IsSome(st.previous)
    THEN Append(st.solution, Some(AsQty(st.qty_accum)))
    ELSE st.solution

RECURSIVE CompileFrom(_, _, _)
CompileFrom(mp, k, st) ==
    IF k \notin DOMAIN mp THEN st
    ELSE CompileFrom(mp, k + 1, CompileStep(st, mp[k]))

\* solve as a function of its arguments.
Solve(total_days, env) ==
    LET mp == MinimumProviders(total_days, env) IN
    FlushSolution(CompileFrom(mp, 0, CompilerStart(mp)))

\* make_environment, calculate_bread_availability and solve, as main runs
\* them on a parsed event list (defined when no step aborts).
PurchasePlan(total_days, events) ==
    LET env == MakeEnvironmentResult(events).environment
        cal == CalculateBreadAvailability(env, total_days).cal
    IN Solve(total_days, [env EXCEPT !.avail_matrix = cal])

\* ------------------------------------------------------------------------
\* main
\* ------------------------------------------------------------------------
Init ==
    /\ args \in Inputs
    /\ pc = "parse_input"
    /\ fatal_msg = ""
    /\ calendar_length = 0
    /\ unordered_events = <<>>
    /\ environment = EmptyEnvironment
    /\ minimum_providers = <<>>
    /\ counter = 0
    /\ previous = None
    /\ qty_accum = 0
    /\ solution = <<>>
    /\ branch = ""

ParseInput ==
    /\ pc = "parse_input"
    /\ LET r == ParseInputResult(args) IN
       /\ pc' = IF r.ok THEN "make_environment" ELSE "fatal"
       /\ fatal_msg' = r.msg
       /\ calendar_length' = IF r.ok THEN args.days ELSE calendar_length
       /\ unordered_events' = r.events
    /\ UNCHANGED <<args, environment, minimum_providers, counter, previous,
                   qty_accum, solution, branch>>

MakeEnvironment ==
    /\ pc = "make_environment"
    /\ LET r == MakeEnvironmentResult(unordered_events) IN
       /\ pc' = IF r.ok THEN "calculate_bread_availability" ELSE "fatal"
       /\ fatal_msg' = IF r.ok THEN fatal_msg ELSE DuplicateMsg
       /\ environment' = r.environment
    /\ UNCHANGED <<args, calendar_length, unordered_events, minimum_providers,
                   counter, previous, qty_accum, solution, branch>>

CalculateAvailability ==
    /\ pc = "calculate_bread_availability"
    /\ LET r == CalculateBreadAvailability(environment, calendar_length) IN
       /\ pc' = IF r.panic THEN "panic" ELSE "solve"
       /\ environment' = [environment EXCEPT !.avail_matrix = r.cal]
    /\ UNCHANGED <<args, fatal_msg, calendar_length, unordered_events,
                   minimum_providers, counter, previous, qty_accum, solution,
                   branch>>

\* solve up to the head of its while loop.
SolveEnter ==
    /\ pc = "solve"
    /\ LET mp == MinimumProviders(calendar_length, environment)
           st == CompilerStart(mp)
       IN /\ minimum_providers' = mp
          /\ previous' = st.previous
          /\ qty_accum' = st.qty_accum
          /\ solution' = st.solution
          /\ branch' = st.branch
    /\ counter' = 0
    /\ pc' = IF Len(environment.event_list) /= 0 /\ calendar_length > 0
             THEN "compile" ELSE "panic"
    /\ UNCHANGED <<args, fatal_msg, calendar_length, unordered_events,
                   environment>>

\* One iteration of the while loop.
SolveStep ==
    /\ pc = "compile"
    /\ counter \in DOMAIN minimum_providers
    /\ LET st == CompileStep([previous |-> previous, qty_accum |-> qty_accum,
                              solution |-> solution, branch |-> branch],
                             minimum_providers[counter])
       IN /\ previous' = st.previous
          /\ qty_accum' = st.qty_accum
          /\ solution' = st.solution
          /\ branch' = st.branch
    /\ counter' = counter + 1
    /\ UNCHANGED <<args, pc, fatal_msg, calendar_length, unordered_events,
                   environment, minimum_providers>>

\* The loop has ended: flush and return.
SolveReturn ==
    /\ pc = "compile"
    /\ counter \notin DOMAIN minimum_providers
    /\ solution' = FlushSolution([previous |-> previous, qty_accum |-> qty_accum,
                                  solution |-> solution, branch |-> branch])
    /\ pc' = "done"
    /\ UNCHANGED <<args, fatal_msg, calendar_length, unordered_events,
                   environment, minimum_providers, counter, previous, qty_accum,
                   branch>>

Next ==
    \/ ParseInput
    \/ MakeEnvironment
    \/ CalculateAvailability
    \/ SolveEnter
    \/ SolveStep
    \/ SolveReturn

Spec == Init /\ [][Next]_vars

\* ------------------------------------------------------------------------
\* Vocabulary of the properties
\* ------------------------------------------------------------------------
Min(a, b) == IF a < b THEN a ELSE b
Max(a, b) == IF a > b THEN a ELSE b

Days == 0..(calendar_length - 1)
ProviderIndices == 0..(Len(environment.providers) - 1)
Price(p) == environment.providers[p + 1]
Fresh(p, i) == environment.avail_matrix[p + 1][i]
FreshDays(p) == {i \in Days : Fresh(p, i)}
NoProviderFresh(i) == \A q \in ProviderIndices : ~Fresh(q, i)

\* calculate_bread_availability has returned.
MatrixBuilt == pc \in {"solve", "compile", "done"}
\* solve has built minimum_providers.
Assigned == pc \in {"compile", "done"}

RECURSIVE SumSome(_)
SumSome(plan) ==
    IF plan = <<>> THEN 0
    ELSE (IF IsSome(Head(plan)) THEN Unwrap(Head(plan)) ELSE 0) + SumSome(Tail(plan))

NoneCount(plan) == Cardinality({k \in DOMAIN plan : plan[k] = None})

\* Two entries of the event list carry the same price.
HasDuplicatePrice(evs) ==
    \E i, j \in DOMAIN evs : i /= j /\ evs[i].price = evs[j].price

\* Some entry has a smaller day than the entry right before it.
NonMonotonic(evs) ==
    \E k \in DOMAIN evs : k > 1 /\ evs[k].day < evs[k - 1].day

Reordered(evs, f) == [k \in DOMAIN evs |-> evs[f[k]]]

\* The plan read off the daily assignment mp in chronological order from day
\* i up to day n - 1: one None per day without provider, one Some(length)
\* per maximal run of days with the same provider.
RECURSIVE RunEnd(_, _, _)
RunEnd(mp, i, n) ==
    IF i + 1 < n /\ mp[i + 1] = mp[i] THEN RunEnd(mp, i + 1, n) ELSE i + 1

RECURSIVE RunLengths(_, _, _)
RunLengths(mp, i, n) ==
    IF i >= n THEN <<>>
    ELSE IF mp[i] = None THEN <<None>> \o RunLengths(mp, i + 1, n)
    ELSE <<Some(RunEnd(mp, i, n) - i)>> \o RunLengths(mp, RunEnd(mp, i, n), n)

\* ------------------------------------------------------------------------
\* Properties
\* ------------------------------------------------------------------------

\* C1: the documented example, 60 days and events (10,200) (15,100) (35,500)
\* (50,30), runs through the whole pipeline without abort and yields exactly
\* the plan [5, 30, 5, 10], with no None entry.
C1_ScenarioAPlan ==
    args = ScenarioA =>
        /\ pc \notin {"fatal", "panic"}
        /\ pc = "done" =>
               solution = <<Some(5), Some(30), Some(5), Some(10)>>

C1_Witness == args = ScenarioA /\ pc = "done"

\* C2: every entry of the daily assignment is the cheapest fresh provider of
\* its day: Some(p) means p is fresh and no fresh provider has a smaller
\* price; None means no provider is fresh; whatever the registration order.
C2_CheapestFresh ==
    Assigned =>
        /\ DOMAIN minimum_providers = Days
        /\ \A i \in Days :
               LET m == minimum_providers[i] IN
               /\ IsSome(m) =>
                      /\ Unwrap(m) \in ProviderIndices
                      /\ Fresh(Unwrap(m), i)
                      /\ \A q \in ProviderIndices :
                             Fresh(q, i) => Price(q) >= Price(Unwrap(m))
               /\ (m = None) <=> NoProviderFresh(i)

\* A day on which the provider registered first is fresh and a provider
\* registered later is chosen.
C2_Witness ==
    /\ pc = "done"
    /\ \E i \in Days :
           /\ IsSome(minimum_providers[i])
           /\ Unwrap(minimum_providers[i]) > 0
           /\ Fresh(0, i)

\* C3 as stated: the Some entries of the plan plus INITIAL_BREAD add up to
\* total_days minus the number of None entries, for every total_days >= 1.
C3_ConservationAsStated ==
    pc = "done" =>
        SumSome(solution) + INITIAL_BREAD = calendar_length - NoneCount(solution)

\* C3, amended: the Some entries of the plan plus the part of the initial
\* inventory that the calendar consumes, min(INITIAL_BREAD, total_days), add
\* up to total_days minus the number of None entries.
C3_Conservation ==
    pc = "done" =>
        SumSome(solution) + Min(INITIAL_BREAD, calendar_length)
            = calendar_length - NoneCount(solution)

C3_Witness ==
    /\ pc = "done"
    /\ calendar_length > INITIAL_BREAD
    /\ \E k \in DOMAIN solution : IsSome(solution[k])
    /\ \E k \in DOMAIN solution : solution[k] = None

\* C4: once make_environment has run on a parsed event list, two entries
\* with equal price mean the process ended with the duplicate-provider fatal
\* and no matrix, assignment or plan exists; with distinct prices there is no
\* fatal and the providers are the prices in (day, price) ascending order.
C4_DuplicateProviderFatal ==
    (pc \notin {"parse_input", "make_environment"} /\ unordered_events /= <<>>) =>
        IF HasDuplicatePrice(unordered_events)
        THEN /\ pc = "fatal"
             /\ fatal_msg = DuplicateMsg
             /\ environment.avail_matrix = <<>>
             /\ minimum_providers = <<>>
             /\ solution = <<>>
        ELSE /\ pc /= "fatal"
             /\ Len(environment.providers) = Len(unordered_events)
             /\ \A k \in DOMAIN unordered_events :
                    IsSome(FindProvider(environment.providers,
                                        unordered_events[k].price))
             /\ \A i, j \in DOMAIN unordered_events :
                    LET pi == Unwrap(FindProvider(environment.providers,
                                                  unordered_events[i].price))
                        pj == Unwrap(FindProvider(environment.providers,
                                                  unordered_events[j].price))
                        ei == unordered_events[i]
                        ej == unordered_events[j]
                    IN (ei.day < ej.day \/ (ei.day = ej.day /\ ei.price < ej.price))
                           => pi < pj

\* The same price offered on two different days.
C4_Witness ==
    /\ pc = "fatal"
    /\ fatal_msg = DuplicateMsg
    /\ \E i, j \in DOMAIN unordered_events :
           /\ unordered_events[i].price = unordered_events[j].price
           /\ unordered_events[i].day /= unordered_events[j].day

\* C5: the plan returned for an event list with distinct prices is the plan
\* returned for every permutation of that list.
C5_OrderIndependent ==
    pc = "done" =>
        \A f \in Permutations(DOMAIN unordered_events) :
            PurchasePlan(calendar_length, Reordered(unordered_events, f)) = solution

\* A list given out of (day, price) order, with a non-empty plan.
C5_Witness ==
    /\ pc = "done"
    /\ unordered_events /= SortEvents(unordered_events)
    /\ solution /= <<>>

\* C6: once parse_input has run on a list in which some day is smaller than
\* the day before it, the process has ended with a fatal and no events were
\* returned.
C6_NonMonotonicRejected ==
    (pc /= "parse_input" /\ NonMonotonic(args.events)) =>
        /\ pc = "fatal"
        /\ unordered_events = <<>>

\* C7 as stated: on events (1,50) (2,40) and 3 days the compiler has
\* provider(50) as previous while it handles days 0 and 1 and takes the
\* switch arm, pushing the closed run, at day index 2.
C7_SwitchAsStated ==
    (args = ScenarioC /\ pc = "compile") =>
        /\ counter \in 1..2 => previous = FindProvider(environment.providers, 50)
        /\ counter = 3 => (branch = "switch" /\ solution /= <<>>)

\* C7, amended: on events (1,50) (2,40) and 3 days the daily assignment is
\* [None, provider(50), provider(40)], but the compiler takes the
\* inventory-drain arm on all three days: previous stays None, the switch arm
\* is never taken and the plan is empty.
C7_ScenarioCDrains ==
    (args = ScenarioC /\ Assigned) =>
        /\ minimum_providers =
               [i \in 0..2 |->
                   IF i = 0 THEN None
                   ELSE IF i = 1 THEN FindProvider(environment.providers, 50)
                   ELSE FindProvider(environment.providers, 40)]
        /\ previous = None
        /\ counter >= 1 => branch = "drain"
        /\ qty_accum = counter - INITIAL_BREAD
        /\ solution = <<>>

C7_Witness == args = ScenarioC /\ pc = "done" /\ counter = 3

\* C8 as stated: the row of each event's provider is true exactly on
\* [d, min(d + BREAD_EXPIRATION, total_days)), a run of length
\* min(BREAD_EXPIRATION, total_days - d), also when d >= total_days.
C8_FreshRunAsStated ==
    MatrixBuilt =>
        \A k \in DOMAIN unordered_events :
            LET d == unordered_events[k].day
                p == Unwrap(FindProvider(environment.providers,
                                         unordered_events[k].price))
            IN /\ FreshDays(p) =
                      {i \in Days : d <= i /\ i < Min(d + BREAD_EXPIRATION,
                                                      calendar_length)}
               /\ Cardinality(FreshDays(p)) =
                      Min(BREAD_EXPIRATION, calendar_length - d)

\* C8, amended: the row of each event's provider is true exactly on
\* [d, min(d + BREAD_EXPIRATION, total_days)), a run of length
\* max(0, min(BREAD_EXPIRATION, total_days - d)): the row is all false when
\* d >= total_days; and no write falls outside the row.
C8_FreshRun ==
    /\ pc /= "panic"
    /\ MatrixBuilt =>
        /\ Len(environment.avail_matrix) = Len(environment.providers)
        /\ \A k \in DOMAIN unordered_events :
            LET d == unordered_events[k].day
                p == Unwrap(FindProvider(environment.providers,
                                         unordered_events[k].price))
            IN /\ DOMAIN environment.avail_matrix[p + 1] = Days
               /\ FreshDays(p) =
                      {i \in Days : d <= i /\ i < Min(d + BREAD_EXPIRATION,
                                                      calendar_length)}
               /\ Cardinality(FreshDays(p)) =
                      Max(0, Min(BREAD_EXPIRATION, calendar_length - d))

\* An event after the end of the calendar next to one whose run is clipped.
C8_Witness ==
    /\ pc = "solve"
    /\ \E k \in DOMAIN unordered_events :
           unordered_events[k].day > calendar_length
    /\ \E k \in DOMAIN unordered_events :
           /\ unordered_events[k].day < calendar_length
           /\ unordered_events[k].day + BREAD_EXPIRATION > calendar_length

\* C9: nothing is pushed while day indices 0..INITIAL_BREAD-1 are handled;
\* the returned plan has one None per day index >= INITIAL_BREAD on which no
\* provider is fresh; its entries are, in chronological order, the runs and
\* stale days of the assignment from day INITIAL_BREAD on; and the event
\* (5,100) with 40 days yields [25, None, None, None, None, None].
C9_StaleDays ==
    /\ (pc = "compile" /\ counter <= INITIAL_BREAD) => solution = <<>>
    /\ pc = "done" =>
        /\ NoneCount(solution) =
               Cardinality({i \in Days : i >= INITIAL_BREAD /\ NoProviderFresh(i)})
        /\ solution = RunLengths(minimum_providers, INITIAL_BREAD, calendar_length)
    /\ (pc = "done" /\ args = ScenarioB) =>
        solution = <<Some(25), None, None, None, None, None>>

\* A provider is fresh on some of the first INITIAL_BREAD days, and stale
\* days follow a run.
C9_Witness ==
    /\ pc = "done"
    /\ \E i \in Days : i < INITIAL_BREAD /\ ~NoProviderFresh(i)
    /\ \E k \in DOMAIN solution :
           k > 1 /\ solution[k] = None /\ IsSome(solution[k - 1])

\* C10: every pushed Some(qty_accum as Qty) carries a value in
\* 1..BREAD_EXPIRATION; while previous is Some the accumulator is in that
\* range and is the length of the run of previous that ends at the last
\* handled day; after a stale day previous is None, so the accumulator left
\* by a Some-to-None step is never pushed.
C10_AccumulatorInRange ==
    Assigned =>
        /\ \A k \in DOMAIN solution :
               IsSome(solution[k]) =>
                   (1 <= Unwrap(solution[k])
                        /\ Unwrap(solution[k]) <= BREAD_EXPIRATION)
        /\ IsSome(previous) =>
               /\ 1 <= qty_accum /\ qty_accum <= BREAD_EXPIRATION
               /\ qty_accum =
                      Cardinality({j \in INITIAL_BREAD..(counter - 1) :
                          \A m \in j..(counter - 1) :
                              minimum_providers[m] = previous})
        /\ branch \in {"stale", "gap"} => previous = None

\* A run has just started after stale days that followed an earlier run.
C10_Witness ==
    /\ pc = "compile"
    /\ branch = "start"
    /\ \E k \in DOMAIN solution :
           k > 1 /\ solution[k] = None /\ IsSome(solution[k - 1])

====
